---- MODULE Spec2Model ----
(***************************************************************************)
(* Model of the probe-library mesh engine (ProbeOBJGenerator in            *)
(* src/src/probe_library/obj_generator.py) and of the batch driver         *)
(* (ProbeLibraryGenerator in src/src/probe_library/probe_generator.py).    *)
(*                                                                         *)
(* Numbers.  The code computes with floats.  The model computes with the   *)
(* exact values a + b*sqrt(2), kept as pairs <<a, b>> of integers counted  *)
(* in HALF micrometres: <<a, b>> stands for (a + b*sqrt(2)) / 2.  Halves   *)
(* are what "thickness / 2" and "width / 2" need, and sqrt(2)/2 is the     *)
(* only irrational the eight circle angles k*pi/4 bring in.                *)
(***************************************************************************)
EXTENDS Integers, Sequences, FiniteSets, TLC

(***************************************************************************)
(* Bounds of the model.                                                    *)
(***************************************************************************)
\* longest contour the callers hand in
MaxPoints == 5
\* most contacts a probe carries
MaxContacts == 2
\* contact geometry is added only to a mesh of at most this many vertices
MaxVertices == 8
\* add_vertex is called directly only on a mesh of fewer vertices than this
MaxLoose == 3
\* most library probes in one batch run
MaxBatch == 2

(***************************************************************************)
(* Constants of the program.                                               *)
(***************************************************************************)
margin == 30
n_segments == 8
default_radius == 10
default_width == 20
default_probe_thickness == 20
default_contact_height == 2

(***************************************************************************)
(* Exact numbers, in half micrometres.                                     *)
(***************************************************************************)
\* the integer or float n
Num(n) == <<2 * n, 0>>
\* n / 2
HalfOf(n) == <<n, 0>>
Plus(p, q) == <<p[1] + q[1], p[2] + q[2]>>
Minus(p, q) == <<p[1] - q[1], p[2] - q[2]>>
\* r * c for an integer r
Times(r, c) == <<r * c[1], r * c[2]>>

\* np.cos and np.sin at the angle k * pi / 4, k = 0..7
np_cos(k) ==
    << <<2, 0>>, <<0, 1>>, <<0, 0>>, <<0, -1>>,
       <<-2, 0>>, <<0, -1>>, <<0, 0>>, <<0, 1>> >>[(k % 8) + 1]
np_sin(k) ==
    << <<0, 0>>, <<0, 1>>, <<2, 0>>, <<0, 1>>,
       <<0, 0>>, <<0, -1>>, <<-2, 0>>, <<0, -1>> >>[(k % 8) + 1]

\* np.linspace(0, 2 * np.pi, n, endpoint=False), in units of pi / 4 (n divides 8)
np_linspace(n) == [j \in 1..n |-> (j - 1) * (8 \div n)]

\* list(reversed(s))
reversed(s) == [j \in 1..Len(s) |-> s[Len(s) + 1 - j]]

RECURSIVE SeqMin(_, _)
SeqMin(s, c) ==
    IF Len(s) = 1 THEN s[1][c]
    ELSE LET m == SeqMin(Tail(s), c) IN IF s[1][c] < m THEN s[1][c] ELSE m
RECURSIVE SeqMax(_, _)
SeqMax(s, c) ==
    IF Len(s) = 1 THEN s[1][c]
    ELSE LET m == SeqMax(Tail(s), c) IN IF s[1][c] > m THEN s[1][c] ELSE m

(***************************************************************************)
(* ProbeOBJGenerator.  A generator is the record of its three fields.  A   *)
(* history field rides along: handed, the indices add_vertex has returned  *)
(* since the last reset, in order.  No operation reads it.                 *)
(***************************************************************************)
ProbeOBJGenerator ==
    [vertices |-> <<>>, faces |-> <<>>, vertex_count |-> 0, handed |-> <<>>]

\* reset that forgets the faces
reset_keeps_faces(g) ==
    [g EXCEPT !.vertices = <<>>, !.vertex_count = 0, !.handed = <<>>]

\* reset that forgets the counter
reset_keeps_vertex_count(g) ==
    [g EXCEPT !.vertices = <<>>, !.faces = <<>>, !.handed = <<>>]

reset(g) ==
    [vertices |-> <<>>, faces |-> <<>>, vertex_count |-> 0, handed |-> <<>>]

\* add_vertex that returns the index before the append
add_vertex_zero_based(g, x, y, z) ==
    [gen |-> [g EXCEPT !.vertices = Append(@, <<x, y, z>>),
                       !.vertex_count = g.vertex_count + 1,
                       !.handed = Append(@, g.vertex_count)],
     ret |-> g.vertex_count]

\* the generator after the call, and the index the call returns
add_vertex(g, x, y, z) ==
    LET count == g.vertex_count + 1
    IN  [gen |-> [g EXCEPT !.vertices = Append(@, <<x, y, z>>),
                           !.vertex_count = count,
                           !.handed = Append(@, count)],
         ret |-> count]

add_face(g, vertex_indices) ==
    [g EXCEPT !.faces = Append(@, vertex_indices)]

\* extrude_loop that adds the top vertex of a point before its bottom vertex
RECURSIVE extrude_loop_top_first(_, _, _, _, _, _, _)
extrude_loop_top_first(g, contour_points, i, z_bottom, z_top, bottom_indices, top_indices) ==
    IF i > Len(contour_points)
    THEN [gen |-> g, bottom |-> bottom_indices, top |-> top_indices,
          raised |-> FALSE]
    ELSE IF Len(contour_points[i]) # 2
    THEN [gen |-> g, bottom |-> bottom_indices, top |-> top_indices,
          raised |-> TRUE]
    ELSE LET x == Num(contour_points[i][1])
             y == Num(contour_points[i][2])
             t == add_vertex(g, x, y, z_top)
             b == add_vertex(t.gen, x, y, z_bottom)
         IN  extrude_loop_top_first(b.gen, contour_points, i + 1, z_bottom, z_top,
                                    Append(bottom_indices, b.ret),
                                    Append(top_indices, t.ret))

\* The loop of extrude_contour from point i on.  "x, y = point" raises on a
\* point that is not a pair; the vertices added before it stay.
RECURSIVE extrude_loop(_, _, _, _, _, _, _)
extrude_loop(g, contour_points, i, z_bottom, z_top, bottom_indices, top_indices) ==
    IF i > Len(contour_points)
    THEN [gen |-> g, bottom |-> bottom_indices, top |-> top_indices,
          raised |-> FALSE]
    ELSE IF Len(contour_points[i]) # 2
    THEN [gen |-> g, bottom |-> bottom_indices, top |-> top_indices,
          raised |-> TRUE]
    ELSE LET x == Num(contour_points[i][1])
             y == Num(contour_points[i][2])
             b == add_vertex(g, x, y, z_bottom)
             t == add_vertex(b.gen, x, y, z_top)
         IN  extrude_loop(t.gen, contour_points, i + 1, z_bottom, z_top,
                          Append(bottom_indices, b.ret),
                          Append(top_indices, t.ret))

extrude_contour(g, contour_points, z_bottom, z_top) ==
    extrude_loop(g, contour_points, 1, z_bottom, z_top, <<>>, <<>>)

\* side_face that goes up before it goes along the edge
side_face_up_first(bottom_indices, top_indices, i) ==
    LET n_points == Len(bottom_indices)
        next_i == (i + 1) % n_points
    IN  << bottom_indices[i + 1], top_indices[i + 1],
           top_indices[next_i + 1], bottom_indices[next_i + 1] >>

\* the quad of side i (0-based, as in the code)
side_face(bottom_indices, top_indices, i) ==
    LET n_points == Len(bottom_indices)
        next_i == (i + 1) % n_points
    IN  << bottom_indices[i + 1], bottom_indices[next_i + 1],
           top_indices[next_i + 1], top_indices[i + 1] >>

\* create_faces_from_contour whose bottom cap runs forward, like the top cap
create_faces_bottom_cap_forward(g, bottom_indices, top_indices) ==
    LET n_points == Len(bottom_indices)
        g1 == IF n_points >= 3 THEN add_face(g, bottom_indices) ELSE g
        g2 == IF n_points >= 3 THEN add_face(g1, top_indices) ELSE g1
    IN  [g2 EXCEPT !.faces =
            @ \o [j \in 1..n_points |-> side_face(bottom_indices, top_indices, j - 1)]]

\* create_faces_from_contour that leaves the top open
create_faces_without_top_cap(g, bottom_indices, top_indices) ==
    LET n_points == Len(bottom_indices)
        g1 == IF n_points >= 3 THEN add_face(g, reversed(bottom_indices)) ELSE g
    IN  [g1 EXCEPT !.faces =
            @ \o [j \in 1..n_points |-> side_face(bottom_indices, top_indices, j - 1)]]

create_faces_from_contour(g, bottom_indices, top_indices) ==
    LET n_points == Len(bottom_indices)
        g1 == IF n_points >= 3 THEN add_face(g, reversed(bottom_indices)) ELSE g
        g2 == IF n_points >= 3 THEN add_face(g1, top_indices) ELSE g1
    IN  [g2 EXCEPT !.faces =
            @ \o [j \in 1..n_points |-> side_face(bottom_indices, top_indices, j - 1)]]

(***************************************************************************)
(* Probes.  A probe is the record of the attributes the code reads.  None  *)
(* is kept beside the value: probe_planar_contour and contact_positions    *)
(* are records [is_none, points]; contact_shapes and contact_shape_params  *)
(* may be missing attributes (getattr's default is then used).  A shape    *)
(* parameter dict is a function from its keys to numbers.                  *)
(***************************************************************************)
\* dict.get(key, default)
get(params, key, default) ==
    IF key \in DOMAIN params THEN params[key] ELSE default

\* getattr(probe, "contact_shapes", ["circle"] * len(positions))
getattr_contact_shapes(probe) ==
    IF probe.has_contact_shapes THEN probe.contact_shapes
    ELSE [j \in 1..Len(probe.contact_positions.points) |-> "circle"]

\* getattr(probe, "contact_shape_params", [{"radius": 10}] * len(positions))
getattr_contact_shape_params(probe) ==
    IF probe.has_contact_shape_params THEN probe.contact_shape_params
    ELSE [j \in 1..Len(probe.contact_positions.points) |-> [radius |-> 10]]

\* positions_3d: np.column_stack([positions, np.zeros(len(positions))]) when ndim is 2
positions_3d(probe) ==
    IF probe.ndim = 2
    THEN [j \in 1..Len(probe.contact_positions.points) |->
             Append(probe.contact_positions.points[j], 0)]
    ELSE probe.contact_positions.points

\* the loop over the angles of _add_circular_contact, from angle j on
RECURSIVE circle_loop(_, _, _, _, _, _, _, _, _, _)
circle_loop(g, x, y, z, radius, height, angles, j, bottom_indices, top_indices) ==
    IF j > Len(angles)
    THEN [gen |-> g, bottom |-> bottom_indices, top |-> top_indices]
    ELSE LET cx == Plus(x, Times(radius, np_cos(angles[j])))
             cy == Plus(y, Times(radius, np_sin(angles[j])))
             b == add_vertex(g, cx, cy, Minus(z, HalfOf(height)))
             t == add_vertex(b.gen, cx, cy, Plus(z, HalfOf(height)))
         IN  circle_loop(t.gen, x, y, z, radius, height, angles, j + 1,
                         Append(bottom_indices, b.ret), Append(top_indices, t.ret))

\* _add_circular_contact with a segment count that follows the radius
_add_circular_contact_adaptive(g, position, radius, height) ==
    IF Len(position) # 3 THEN [gen |-> g, raised |-> TRUE]
    ELSE LET c == circle_loop(g, Num(position[1]), Num(position[2]), Num(position[3]),
                              radius, height,
                              np_linspace(IF radius < 5 THEN 4 ELSE n_segments),
                              1, <<>>, <<>>)
         IN  [gen |-> create_faces_from_contour(c.gen, c.bottom, c.top),
              raised |-> FALSE]

\* "x, y, z = position" raises unless the position has three components
_add_circular_contact(g, position, radius, height) ==
    IF Len(position) # 3 THEN [gen |-> g, raised |-> TRUE]
    ELSE LET c == circle_loop(g, Num(position[1]), Num(position[2]), Num(position[3]),
                              radius, height, np_linspace(n_segments), 1, <<>>, <<>>)
         IN  [gen |-> create_faces_from_contour(c.gen, c.bottom, c.top),
              raised |-> FALSE]

\* the corners of _add_rectangular_contact, as offsets in half widths and heights
rect_corners == << <<-1, -1>>, <<1, -1>>, <<1, 1>>, <<-1, 1>> >>

RECURSIVE corner_loop(_, _, _, _, _, _, _, _, _, _)
corner_loop(g, x, y, z, width, height, thickness, j, bottom_indices, top_indices) ==
    IF j > Len(rect_corners)
    THEN [gen |-> g, bottom |-> bottom_indices, top |-> top_indices]
    ELSE LET cx == Plus(x, HalfOf(rect_corners[j][1] * width))
             cy == Plus(y, HalfOf(rect_corners[j][2] * height))
             b == add_vertex(g, cx, cy, Minus(z, HalfOf(thickness)))
             t == add_vertex(b.gen, cx, cy, Plus(z, HalfOf(thickness)))
         IN  corner_loop(t.gen, x, y, z, width, height, thickness, j + 1,
                         Append(bottom_indices, b.ret), Append(top_indices, t.ret))

_add_rectangular_contact(g, position, width, height, thickness) ==
    IF Len(position) # 3 THEN [gen |-> g, raised |-> TRUE]
    ELSE LET c == corner_loop(g, Num(position[1]), Num(position[2]), Num(position[3]),
                              width, height, thickness, 1, <<>>, <<>>)
         IN  [gen |-> create_faces_from_contour(c.gen, c.bottom, c.top),
              raised |-> FALSE]

\* add_one_contact whose rectangle height defaults to 20 instead of the width
add_one_contact_height_20(g, pos, contact_shapes, shape_params, i, contact_height) ==
    LET shape == IF i <= Len(contact_shapes) THEN contact_shapes[i] ELSE "circle"
        params == IF i <= Len(shape_params) THEN shape_params[i]
                  ELSE [radius |-> 10]
    IN  IF shape = "circle"
        THEN _add_circular_contact(g, pos, get(params, "radius", default_radius),
                                   contact_height)
        ELSE IF shape \in {"square", "rect"}
        THEN _add_rectangular_contact(g, pos, get(params, "width", default_width),
                                      get(params, "height", default_width),
                                      contact_height)
        ELSE [gen |-> g, raised |-> FALSE]

\* one pass of the loop of add_contact_geometry: contact i (1-based here)
add_one_contact(g, pos, contact_shapes, shape_params, i, contact_height) ==
    LET shape == IF i <= Len(contact_shapes) THEN contact_shapes[i] ELSE "circle"
        params == IF i <= Len(shape_params) THEN shape_params[i]
                  ELSE [radius |-> 10]
    IN  IF shape = "circle"
        THEN _add_circular_contact(g, pos, get(params, "radius", default_radius),
                                   contact_height)
        ELSE IF shape \in {"square", "rect"}
        THEN LET width == get(params, "width", default_width)
                 height == get(params, "height", width)
             IN  _add_rectangular_contact(g, pos, width, height, contact_height)
        ELSE [gen |-> g, raised |-> FALSE]

RECURSIVE contact_loop(_, _, _, _, _, _)
contact_loop(g, positions, contact_shapes, shape_params, i, contact_height) ==
    IF i > Len(positions) THEN [gen |-> g, raised |-> FALSE]
    ELSE LET r == add_one_contact(g, positions[i], contact_shapes, shape_params,
                                  i, contact_height)
         IN  IF r.raised THEN r
             ELSE contact_loop(r.gen, positions, contact_shapes, shape_params,
                               i + 1, contact_height)

\* len(None) raises while the getattr defaults are built
add_contact_geometry(g, probe, contact_height) ==
    IF probe.contact_positions.is_none THEN [gen |-> g, raised |-> TRUE]
    ELSE contact_loop(g, positions_3d(probe), getattr_contact_shapes(probe),
                      getattr_contact_shape_params(probe), 1, contact_height)

\* _generate_basic_probe_shape that starts the rectangle at the bottom-left corner
_generate_basic_probe_shape_bottom_left(g, probe, probe_thickness, contact_height, add_contacts) ==
    IF probe.contact_positions.is_none \/ Len(probe.contact_positions.points) = 0
    THEN [gen |-> g, ok |-> FALSE, raised |-> FALSE,
          calls |-> <<"_generate_basic_probe_shape">>]
    ELSE LET positions == positions_3d(probe)
             x_min == SeqMin(positions, 1) - margin
             x_max == SeqMax(positions, 1) + margin
             y_min == SeqMin(positions, 2) - margin
             y_max == SeqMax(positions, 2) + margin
             basic_contour == << <<x_min, y_min>>, <<x_max, y_min>>,
                                 <<x_max, y_max>>, <<x_min, y_max>> >>
             e == extrude_contour(g, basic_contour, HalfOf(-probe_thickness),
                                  HalfOf(probe_thickness))
         IN  [gen |-> create_faces_from_contour(e.gen, e.bottom, e.top),
              ok |-> TRUE, raised |-> FALSE,
              calls |-> <<"_generate_basic_probe_shape", "extrude_contour",
                          "create_faces_from_contour">>]

\* _generate_basic_probe_shape that boxes the origin when there are no positions
_generate_basic_probe_shape_origin_box(g, probe, probe_thickness, contact_height, add_contacts) ==
    LET positions == IF probe.contact_positions.is_none
                        \/ Len(probe.contact_positions.points) = 0
                     THEN << <<0, 0, 0>> >> ELSE positions_3d(probe)
        x_min == SeqMin(positions, 1) - margin
        x_max == SeqMax(positions, 1) + margin
        y_min == SeqMin(positions, 2) - margin
        y_max == SeqMax(positions, 2) + margin
        basic_contour == << <<x_min, y_max>>, <<x_min, y_min>>,
                            <<x_max, y_min>>, <<x_max, y_max>> >>
        e == extrude_contour(g, basic_contour, HalfOf(-probe_thickness),
                             HalfOf(probe_thickness))
    IN  [gen |-> create_faces_from_contour(e.gen, e.bottom, e.top),
         ok |-> TRUE, raised |-> FALSE,
         calls |-> <<"_generate_basic_probe_shape", "extrude_contour",
                     "create_faces_from_contour">>]

\* np.min / np.max raise on no positions (None or empty); the except clause turns
\* every exception into the return value False, so the call itself never raises
_generate_basic_probe_shape(g, probe, probe_thickness, contact_height, add_contacts) ==
    IF probe.contact_positions.is_none \/ Len(probe.contact_positions.points) = 0
    THEN [gen |-> g, ok |-> FALSE, raised |-> FALSE,
          calls |-> <<"_generate_basic_probe_shape">>]
    ELSE LET positions == positions_3d(probe)
             x_min == SeqMin(positions, 1) - margin
             x_max == SeqMax(positions, 1) + margin
             y_min == SeqMin(positions, 2) - margin
             y_max == SeqMax(positions, 2) + margin
             basic_contour == << <<x_min, y_max>>, <<x_min, y_min>>,
                                 <<x_max, y_min>>, <<x_max, y_max>> >>
             e == extrude_contour(g, basic_contour, HalfOf(-probe_thickness),
                                  HalfOf(probe_thickness))
         IN  [gen |-> create_faces_from_contour(e.gen, e.bottom, e.top),
              ok |-> TRUE, raised |-> FALSE,
              calls |-> <<"_generate_basic_probe_shape", "extrude_contour",
                          "create_faces_from_contour">>]

\* generate_probe_mesh that honours add_contacts
generate_probe_mesh_with_contacts(g, probe, probe_thickness, contact_height, add_contacts) ==
    LET g0 == reset(g)
        contour == probe.probe_planar_contour
        body == IF contour.is_none \/ Len(contour.points) < 3
                THEN _generate_basic_probe_shape(g0, probe, probe_thickness,
                                                 contact_height, FALSE)
                ELSE LET e == extrude_contour(g0, contour.points,
                                              HalfOf(-probe_thickness),
                                              HalfOf(probe_thickness))
                     IN  IF e.raised
                         THEN [gen |-> e.gen, ok |-> FALSE, raised |-> FALSE,
                               calls |-> <<"extrude_contour">>]
                         ELSE [gen |-> create_faces_from_contour(e.gen, e.bottom, e.top),
                               ok |-> TRUE, raised |-> FALSE,
                               calls |-> <<"extrude_contour",
                                           "create_faces_from_contour">>]
        c == add_contact_geometry(body.gen, probe, contact_height)
    IN  IF body.ok /\ add_contacts
        THEN [gen |-> c.gen, ok |-> ~c.raised, raised |-> FALSE,
              calls |-> <<"reset">> \o body.calls \o <<"add_contact_geometry">>]
        ELSE [body EXCEPT !.calls = <<"reset">> \o @]

\* The generator after the call, the value returned, whether the call raised (the
\* except clause catches every exception), and the methods called, in order.
generate_probe_mesh(g, probe, probe_thickness, contact_height, add_contacts) ==
    LET g0 == reset(g)
        contour == probe.probe_planar_contour
    IN  IF contour.is_none \/ Len(contour.points) < 3
        THEN LET r == _generate_basic_probe_shape(g0, probe, probe_thickness,
                                                  contact_height, FALSE)
             IN  [r EXCEPT !.calls = <<"reset">> \o @]
        ELSE LET e == extrude_contour(g0, contour.points, HalfOf(-probe_thickness),
                                      HalfOf(probe_thickness))
             IN  IF e.raised
                 THEN [gen |-> e.gen, ok |-> FALSE, raised |-> FALSE,
                       calls |-> <<"reset", "extrude_contour">>]
                 ELSE [gen |-> create_faces_from_contour(e.gen, e.bottom, e.top),
                       ok |-> TRUE, raised |-> FALSE,
                       calls |-> <<"reset", "extrude_contour",
                                   "create_faces_from_contour">>]


(***************************************************************************)
(* save_obj.  A text is the sequence of the lines written, a line the      *)
(* sequence of its characters (without the line break that ends it).       *)
(***************************************************************************)
digit(d) == <<"0", "1", "2", "3", "4", "5", "6", "7", "8", "9">>[d + 1]

\* str(n) for an int n >= 0
RECURSIVE str_nat(_)
str_nat(n) ==
    IF n < 10 THEN <<digit(n)>> ELSE str_nat(n \div 10) \o <<digit(n % 10)>>

\* str(n)
str(n) == IF n < 0 THEN <<"-">> \o str_nat(-n) ELSE str_nat(n)

\* b * sqrt(2) in millionths, rounded: sqrt(2) = 1.414213562373...
sqrt2_micro(b) == b * 1414213 + ((b * 562373 + 500000) \div 1000000)

\* the number c in millionths of a micrometre, rounded
micro(c) == (c[1] * 1000000 + sqrt2_micro(c[2]) + 1) \div 2

\* f"{c:.6f}"
format_6f(c) ==
    LET m == micro(c)
        mag == IF m < 0 THEN -m ELSE m
        frac == mag % 1000000
    IN  (IF m < 0 THEN <<"-">> ELSE <<>>)
        \o str_nat(mag \div 1000000) \o <<".">>
        \o [j \in 1..6 |->
               digit((frac \div <<100000, 10000, 1000, 100, 10, 1>>[j]) % 10)]

\* ' '.join(map(str, face))
RECURSIVE join_str(_)
join_str(face) ==
    IF Len(face) = 0 THEN <<>>
    ELSE IF Len(face) = 1 THEN str(face[1])
    ELSE str(face[1]) \o <<" ">> \o join_str(Tail(face))

\* face_line that writes 0-based indices
face_line_zero_based(face) ==
    <<"f", " ">> \o join_str([j \in 1..Len(face) |-> face[j] - 1])

vertex_line(vertex) ==
    <<"v", " ">> \o format_6f(vertex[1]) \o <<" ">> \o format_6f(vertex[2])
                 \o <<" ">> \o format_6f(vertex[3])

face_line(face) == <<"f", " ">> \o join_str(face)

\* the four comment lines and the empty line that follows them
header_lines(g, probe_name) ==
    << <<"#", " ", "P", "r", "o", "b", "e", ":", " ">> \o probe_name,
       <<"#", " ", "G", "e", "n", "e", "r", "a", "t", "e", "d", " ", "b", "y", " ",
         "P", "r", "o", "b", "e", "O", "B", "J", "G", "e", "n", "e", "r", "a", "t",
         "o", "r">>,
       <<"#", " ", "V", "e", "r", "t", "i", "c", "e", "s", ":", " ">>
           \o str(Len(g.vertices)),
       <<"#", " ", "F", "a", "c", "e", "s", ":", " ">> \o str(Len(g.faces)),
       <<>> >>

\* io is what the file system does: "ok"; "open_fails" (open raises: nothing is
\* written); "write_fails" (a write raises after the header: the file is partial).
save_obj(g, probe_name, io) ==
    IF io = "open_fails" THEN [ok |-> FALSE, opened |-> FALSE, text |-> <<>>]
    ELSE IF io = "write_fails"
    THEN [ok |-> FALSE, opened |-> TRUE, text |-> header_lines(g, probe_name)]
    ELSE [ok |-> TRUE, opened |-> TRUE,
          text |-> header_lines(g, probe_name)
                   \o [j \in 1..Len(g.vertices) |-> vertex_line(g.vertices[j])]
                   \o << <<>> >>
                   \o [j \in 1..Len(g.faces) |-> face_line(g.faces[j])]]

\* getattr(probe, "model_name", output_path.stem)
getattr_model_name(probe, stem) ==
    IF probe.has_model_name THEN probe.model_name ELSE stem

\* generate_probe_obj that saves whatever generate_probe_mesh returned
generate_probe_obj_saves_anyway(probe, stem, probe_thickness, contact_height, add_contacts, io) ==
    LET m == generate_probe_mesh(ProbeOBJGenerator, probe, probe_thickness,
                                 contact_height, FALSE)
        w == save_obj(m.gen, getattr_model_name(probe, stem), io)
    IN  [gen |-> m.gen, ok |-> w.ok, raised |-> FALSE, mesh_ok |-> m.ok,
         calls |-> <<"generate_probe_mesh">> \o m.calls \o <<"save_obj">>,
         opened |-> w.opened, text |-> w.text]

\* The module's generate_probe_obj: a new generator, generate_probe_mesh, save_obj.
\* gen is that generator when the function returns.
generate_probe_obj(probe, stem, probe_thickness, contact_height, add_contacts, io) ==
    LET m == generate_probe_mesh(ProbeOBJGenerator, probe, probe_thickness,
                                 contact_height, FALSE)
    IN  IF m.ok
        THEN LET w == save_obj(m.gen, getattr_model_name(probe, stem), io)
             IN  [gen |-> m.gen, ok |-> w.ok, raised |-> FALSE, mesh_ok |-> TRUE,
                  calls |-> <<"generate_probe_mesh">> \o m.calls \o <<"save_obj">>,
                  opened |-> w.opened, text |-> w.text]
        ELSE [gen |-> m.gen, ok |-> FALSE, raised |-> FALSE, mesh_ok |-> FALSE,
              calls |-> <<"generate_probe_mesh">> \o m.calls,
              opened |-> FALSE, text |-> <<>>]

(***************************************************************************)
(* The inputs the callers hand in.                                         *)
(***************************************************************************)
\* a convex n-gon: the points (j, j*j)
Polygon(n) == [j \in 1..n |-> <<j, j * j>>]

\* a contour whose second point has three components
RaggedContour == << <<0, 0>>, <<4, 0, 0>>, <<2, 3>> >>

Contours ==
    {[is_none |-> TRUE, points |-> <<>>]}
    \cup {[is_none |-> FALSE, points |-> Polygon(n)] : n \in 2..MaxPoints}
    \cup {[is_none |-> FALSE, points |-> RaggedContour]}

\* k contact positions of a 2-d probe
Rows(k) == [j \in 1..k |-> <<10 * (j - 1), -20 * (j - 1)>>]

\* the tags and parameter dicts the contacts cycle through
ShapeCycle == <<"circle", "rect", "circle", "square", "hex", "rect">>
ParamCycle ==
    << [radius |-> 5], [width |-> 20, height |-> 10], [width |-> 4],
       [width |-> 7], [radius |-> 5], <<>> >>

NoContacts ==
    [contact_positions |-> [is_none |-> TRUE, points |-> <<>>], ndim |-> 2,
     has_contact_shapes |-> FALSE, contact_shapes |-> <<>>,
     has_contact_shape_params |-> FALSE, contact_shape_params |-> <<>>]

ContactSets ==
    {NoContacts}
    \* k contacts, no shape attributes
    \cup {[NoContacts EXCEPT !.contact_positions = [is_none |-> FALSE, points |-> Rows(k)]]
            : k \in 0..MaxContacts}
    \* MaxContacts contacts with tags and parameters, starting at f in the cycles
    \cup {[contact_positions |-> [is_none |-> FALSE, points |-> Rows(MaxContacts)],
           ndim |-> 2,
           has_contact_shapes |-> TRUE,
           contact_shapes |-> [j \in 1..MaxContacts |-> ShapeCycle[((f + j - 2) % 6) + 1]],
           has_contact_shape_params |-> TRUE,
           contact_shape_params |-> [j \in 1..MaxContacts |-> ParamCycle[((f + j - 2) % 6) + 1]]]
            : f \in {1, 3, 5}}
    \* the shape lists are shorter than the positions
    \cup {[contact_positions |-> [is_none |-> FALSE, points |-> Rows(MaxContacts)],
           ndim |-> 2,
           has_contact_shapes |-> TRUE, contact_shapes |-> <<"square">>,
           has_contact_shape_params |-> TRUE, contact_shape_params |-> << <<>> >>]}
    \* the parameter list is shorter than the shape list, and the other way round
    \cup {[contact_positions |-> [is_none |-> FALSE, points |-> Rows(MaxContacts)],
           ndim |-> 2,
           has_contact_shapes |-> TRUE,
           contact_shapes |-> [j \in 1..MaxContacts |-> "rect"],
           has_contact_shape_params |-> TRUE,
           contact_shape_params |-> << [width |-> 7] >>],
          [contact_positions |-> [is_none |-> FALSE, points |-> Rows(MaxContacts)],
           ndim |-> 2,
           has_contact_shapes |-> TRUE, contact_shapes |-> <<"rect">>,
           has_contact_shape_params |-> TRUE,
           contact_shape_params |-> [j \in 1..MaxContacts |-> [radius |-> 5]]]}
    \* a 3-d probe, and a probe whose ndim is 3 while its positions are pairs
    \cup {[NoContacts EXCEPT !.contact_positions = [is_none |-> FALSE, points |-> pts],
                             !.ndim = 3]
            : pts \in { << <<5, 5, 1>> >>, << <<1, 1>> >> }}

Probe(contour, contacts) ==
    [probe_planar_contour |-> contour,
     contact_positions |-> contacts.contact_positions,
     ndim |-> contacts.ndim,
     has_contact_shapes |-> contacts.has_contact_shapes,
     contact_shapes |-> contacts.contact_shapes,
     has_contact_shape_params |-> contacts.has_contact_shape_params,
     contact_shape_params |-> contacts.contact_shape_params,
     has_model_name |-> FALSE, model_name |-> <<>>]

NoContour == [is_none |-> TRUE, points |-> <<>>]
OneContact == [NoContacts EXCEPT !.contact_positions = [is_none |-> FALSE, points |-> Rows(1)]]

\* the probes handed to generate_probe_mesh: without a contour, each number of
\* contacts (None, 0, 1, MaxContacts) and a 3-d probe; every contour with one
\* contact; a contour too short and a contour long enough, without contacts; a
\* probe that carries a model_name
MeshProbes ==
    {Probe(NoContour, k) : k \in {x \in ContactSets : ~x.has_contact_shapes}}
    \cup {Probe(c, OneContact) : c \in Contours \ {NoContour}}
    \cup {Probe([is_none |-> FALSE, points |-> Polygon(n)], NoContacts) : n \in 2..3}
    \cup {[Probe([is_none |-> FALSE, points |-> Polygon(3)], NoContacts) EXCEPT
              !.has_model_name = TRUE, !.model_name = <<"N", "P", "1">>]}

\* the probes handed to add_contact_geometry: every contact set
ContactProbes == {Probe(NoContour, k) : k \in ContactSets}

Thicknesses == {default_probe_thickness}
ContactHeights == {default_contact_height}
VertexInputs == {<<1, 2, 3>>}
Positions == {<<10, -20, 1>>}
Radii == {0, 5, default_radius}
Widths == {7, default_width}
ProbeNames == {<<"p", "r", "o", "b", "e">>, <<"A", "1", "x", "3", "2">>}
IoOutcomes == {"ok", "open_fails", "write_fails"}

(***************************************************************************)
(* ProbeLibraryGenerator.  The file system's part in a call is an input:   *)
(* "ok" or "fails" (mkdir, open or a write raises).                        *)
(***************************************************************************)
\* probe_to_csv: every exception is caught and turned into False
probe_to_csv(probe, io) == io = "ok"

\* probe_to_obj: mkdir, then generate_probe_obj with the default arguments
probe_to_obj(probe, filename, io) ==
    IF io = "mkdir_fails" THEN FALSE
    ELSE generate_probe_obj(probe, filename, default_probe_thickness,
                            default_contact_height, FALSE, io).ok

\* generate_metadata_json: np.array(None).shape[0] raises (a contour that is None);
\* np.min(contour[:, 1]) raises on a contour that is not an array of pairs
generate_metadata_json(probe, io) ==
    LET contour == probe.probe_planar_contour
    IN  /\ ~contour.is_none
        /\ \A j \in DOMAIN contour.points : Len(contour.points[j]) = 2
        /\ io = "ok"

\* process_probe that keeps the last of the three results only
process_probe_last_result(probe, name, csv_io, obj_io, meta_io) ==
    LET csv == probe_to_csv(probe, csv_io)
        obj == probe_to_obj(probe, name, obj_io)
        meta == generate_metadata_json(probe, meta_io)
    IN  [csv |-> csv, obj |-> obj, meta |-> meta, success |-> meta]

\* process_probe: the three results, and the value returned ("success &= ..."
\* evaluates all three)
process_probe(probe, name, csv_io, obj_io, meta_io) ==
    LET csv == probe_to_csv(probe, csv_io)
        obj == probe_to_obj(probe, name, obj_io)
        meta == generate_metadata_json(probe, meta_io)
    IN  [csv |-> csv, obj |-> obj, meta |-> meta,
         success |-> ((TRUE /\ csv) /\ obj) /\ meta]

\* what get_probe may return for a library entry that loads
LibraryProbes ==
    { Probe([is_none |-> FALSE, points |-> Polygon(3)], OneContact),
      Probe(NoContour, OneContact),
      Probe(NoContour, [NoContacts EXCEPT
                           !.contact_positions = [is_none |-> FALSE, points |-> <<>>]]) }

\* the three demo probes of generate_demo_probes, in order.  probeinterface's
\* create_auto_shape gives a "tip" probe a 5-point contour and a "rect" probe a
\* 4-point one; with a contour, the contacts play no part in the OBJ.
DemoProbes ==
    << [name |-> <<"l", "i", "n", "e", "a", "r", "_", "3", "2", "c", "h">>,
        probe |-> Probe([is_none |-> FALSE, points |-> Polygon(5)], OneContact)],
       [name |-> <<"m", "u", "l", "t", "i", "_", "c", "o", "l", "u", "m", "n", "_", "4", "x", "8">>,
        probe |-> Probe([is_none |-> FALSE, points |-> Polygon(4)], OneContact)],
       [name |-> <<"d", "u", "m", "m", "y", "_", "p", "r", "o", "b", "e">>,
        probe |-> Probe([is_none |-> FALSE, points |-> Polygon(5)], OneContact)] >>

\* the name of library entry j
LibraryName(j) == <<"l", "i", "b">> \o str(j)

CsvIo == {"ok", "fails"}
ObjIo == {"ok", "open_fails", "mkdir_fails"}

(***************************************************************************)
(* One ProbeOBJGenerator and its callers.  gen is the generator; last is   *)
(* the record of the most recent call on it: the method, its arguments,    *)
(* the size of the mesh before it, what it returned and what it wrote.     *)
(***************************************************************************)
VARIABLES gen, last, batch
vars == <<gen, last, batch>>

NoProbe == Probe(NoContour, NoContacts)

NoCall ==
    [op |-> "__init__", ok |-> TRUE, raised |-> FALSE, probe |-> NoProbe,
     probe_thickness |-> 0, contact_height |-> 0, add_contacts |-> FALSE,
     args |-> <<>>, before_v |-> 0, before_f |-> 0, ret |-> 0, calls |-> <<>>,
     probe_name |-> <<>>, io |-> "", opened |-> FALSE, text |-> <<>>]

Call(op) ==
    [NoCall EXCEPT !.op = op, !.before_v = Len(gen.vertices),
                   !.before_f = Len(gen.faces)]

\* no batch run
NoBatch == [pc |-> "idle"]

Init == gen = ProbeOBJGenerator /\ last = NoCall /\ batch = NoBatch

Reset ==
    /\ gen' = reset(gen)
    /\ last' = Call("reset")
    /\ UNCHANGED batch

AddVertex ==
    /\ UNCHANGED batch
    /\ \E v \in VertexInputs :
        /\ gen.vertex_count < MaxLoose
        /\ LET r == add_vertex(gen, Num(v[1]), Num(v[2]), Num(v[3]))
           IN  /\ gen' = r.gen
               /\ last' = [Call("add_vertex") EXCEPT !.ret = r.ret]

GenerateProbeMesh ==
    /\ UNCHANGED batch
    /\ \E probe \in MeshProbes, probe_thickness \in Thicknesses,
       contact_height \in ContactHeights, add_contacts \in BOOLEAN :
        LET r == generate_probe_mesh(gen, probe, probe_thickness, contact_height,
                                     add_contacts)
        IN  /\ gen' = r.gen
            /\ last' = [Call("generate_probe_mesh") EXCEPT
                           !.ok = r.ok, !.raised = r.raised, !.probe = probe,
                           !.probe_thickness = probe_thickness,
                           !.contact_height = contact_height,
                           !.add_contacts = add_contacts, !.calls = r.calls]

AddContactGeometry ==
    /\ UNCHANGED batch
    /\ \E probe \in ContactProbes, contact_height \in ContactHeights :
        /\ gen.vertex_count <= MaxVertices
        /\ LET r == add_contact_geometry(gen, probe, contact_height)
           IN  /\ gen' = r.gen
               /\ last' = [Call("add_contact_geometry") EXCEPT
                              !.raised = r.raised, !.probe = probe,
                              !.contact_height = contact_height]

AddCircularContact ==
    /\ UNCHANGED batch
    /\ \E position \in Positions, radius \in Radii, height \in ContactHeights :
        /\ gen.vertex_count <= MaxVertices
        /\ LET r == _add_circular_contact(gen, position, radius, height)
           IN  /\ gen' = r.gen
               /\ last' = [Call("_add_circular_contact") EXCEPT
                              !.raised = r.raised, !.args = <<position, radius, height>>]

AddRectangularContact ==
    /\ UNCHANGED batch
    /\ \E position \in Positions, width \in Widths, height \in Widths,
       thickness \in ContactHeights :
        /\ gen.vertex_count <= MaxVertices
        /\ LET r == _add_rectangular_contact(gen, position, width, height, thickness)
           IN  /\ gen' = r.gen
               /\ last' = [Call("_add_rectangular_contact") EXCEPT
                              !.raised = r.raised,
                              !.args = <<position, width, height, thickness>>]

SaveObj ==
    /\ UNCHANGED batch
    /\ \E probe_name \in ProbeNames, io \in IoOutcomes :
        LET r == save_obj(gen, probe_name, io)
        IN  /\ gen' = gen
            /\ last' = [Call("save_obj") EXCEPT
                           !.ok = r.ok, !.probe_name = probe_name, !.io = io,
                           !.opened = r.opened, !.text = r.text]

\* generate_probe_obj builds its own generator: from here on gen is that one.  It
\* reads nothing of the generator and the call record before it, so the state it
\* leads to is the same from every state, and it is taken from the initial state.
GenerateProbeObj ==
    /\ UNCHANGED batch
    /\ \E probe \in MeshProbes, stem \in ProbeNames, probe_thickness \in Thicknesses,
       contact_height \in ContactHeights, add_contacts \in BOOLEAN,
       io \in IoOutcomes :
        /\ last.op = "__init__"
        /\ LET r == generate_probe_obj(probe, stem, probe_thickness, contact_height,
                                       add_contacts, io)
           IN  /\ gen' = r.gen
               /\ last' = [NoCall EXCEPT
                              !.op = "generate_probe_obj", !.ok = r.ok,
                              !.raised = r.raised, !.probe = probe,
                              !.probe_thickness = probe_thickness,
                              !.contact_height = contact_height,
                              !.add_contacts = add_contacts, !.calls = r.calls,
                              !.probe_name = getattr_model_name(probe, stem),
                              !.io = io, !.opened = r.opened, !.text = r.text]

Next ==
    \/ Reset
    \/ AddVertex
    \/ GenerateProbeMesh
    \/ AddContactGeometry
    \/ AddCircularContact
    \/ AddRectangularContact
    \/ SaveObj
    \/ GenerateProbeObj

Spec == Init /\ [][Next]_vars


(***************************************************************************)
(* process_all_probes, one step per loop iteration.  batch holds the run:  *)
(* pc and i, where it is; probe_specs, for each library entry whether      *)
(* get_probe will load it; demo_probes; the two counters; and three        *)
(* history fields: processed, the names handed to process_probe so far,    *)
(* cur, the results of the last process_probe, and all_three, the number   *)
(* of probes whose CSV, OBJ and metadata all succeeded.                    *)
(***************************************************************************)
NoResult == [csv |-> TRUE, obj |-> TRUE, meta |-> TRUE, success |-> TRUE]

StartBatch(probe_specs) ==
    [pc |-> "library", probe_specs |-> probe_specs, i |-> 1, demo_probes |-> <<>>,
     probe_type_counter |-> 1, successful_probes |-> 0,
     processed |-> <<>>, cur |-> NoResult, all_three |-> 0]

\* the sequences of at most n booleans
RECURSIVE BoolSeqs(_)
BoolSeqs(n) ==
    IF n = 0 THEN {<<>>}
    ELSE BoolSeqs(n - 1)
         \cup {Append(q, b) : q \in {x \in BoolSeqs(n - 1) : Len(x) = n - 1},
                              b \in BOOLEAN}

BatchInit ==
    /\ gen = ProbeOBJGenerator
    /\ last = NoCall
    /\ batch \in {StartBatch(probe_specs) : probe_specs \in BoolSeqs(MaxBatch)}

\* the batch after process_probe on (probe, name) returned r
Processed(probe, name, r) ==
    [batch EXCEPT
        !.i = @ + 1,
        !.successful_probes = IF r.success THEN @ + 1 ELSE @,
        !.probe_type_counter = @ + 1,
        !.processed = Append(@, name),
        !.cur = r,
        !.all_three = IF r.csv /\ r.obj /\ r.meta THEN @ + 1 ELSE @]

\* load_probe_from_library returns None: the entry is skipped
SkipLibraryProbe ==
    /\ UNCHANGED <<gen, last>>
    /\ batch.pc = "library"
    /\ batch.i <= Len(batch.probe_specs)
    /\ ~batch.probe_specs[batch.i]
    /\ batch' = [batch EXCEPT !.i = @ + 1]

ProcessLibraryProbe ==
    /\ UNCHANGED <<gen, last>>
    /\ batch.pc = "library"
    /\ batch.i <= Len(batch.probe_specs)
    /\ batch.probe_specs[batch.i]
    /\ \E probe \in LibraryProbes, csv_io \in CsvIo, obj_io \in ObjIo, meta_io \in CsvIo :
          batch' = Processed(probe, LibraryName(batch.i),
                             process_probe(probe, LibraryName(batch.i),
                                           csv_io, obj_io, meta_io))

\* generate_demo_probes: each of the three generators may raise, and is then left out
GenerateDemoProbes ==
    /\ UNCHANGED <<gen, last>>
    /\ batch.pc = "library"
    /\ batch.i > Len(batch.probe_specs)
    /\ \E made \in SUBSET (1..3) :
          batch' = [batch EXCEPT
                       !.pc = "demo", !.i = 1,
                       !.demo_probes = SelectSeq(DemoProbes,
                                           LAMBDA d : \E j \in made : DemoProbes[j] = d)]

ProcessDemoProbe ==
    /\ UNCHANGED <<gen, last>>
    /\ batch.pc = "demo"
    /\ batch.i <= Len(batch.demo_probes)
    /\ \E csv_io \in CsvIo, obj_io \in ObjIo, meta_io \in CsvIo :
          LET d == batch.demo_probes[batch.i]
          IN  batch' = Processed(d.probe, d.name,
                                 process_probe(d.probe, d.name, csv_io, obj_io, meta_io))

Summary ==
    /\ batch.pc = "demo"
    /\ batch.i > Len(batch.demo_probes)
    /\ batch' = [batch EXCEPT !.pc = "done"]
    /\ UNCHANGED <<gen, last>>

BatchNext ==
    \/ SkipLibraryProbe
    \/ ProcessLibraryProbe
    \/ GenerateDemoProbes
    \/ ProcessDemoProbe
    \/ Summary

BatchSpec == BatchInit /\ [][BatchNext]_vars

(***************************************************************************)
(* What the claims speak of.                                               *)
(***************************************************************************)
Range(q) == {q[j] : j \in DOMAIN q}

\* a contour the code extrudes: present, at least 3 points, every point a pair
UsableContour(probe) ==
    /\ ~probe.probe_planar_contour.is_none
    /\ Len(probe.probe_planar_contour.points) >= 3
    /\ \A pt \in Range(probe.probe_planar_contour.points) : Len(pt) = 2

\* the contour is absent or has fewer than 3 points
NoContourCase(probe) ==
    \/ probe.probe_planar_contour.is_none
    \/ Len(probe.probe_planar_contour.points) < 3

\* the number of contact positions (None counts as none)
ContactCount(probe) ==
    IF probe.contact_positions.is_none THEN 0
    ELSE Len(probe.contact_positions.points)

\* every index of every face of faces lies in lo..hi
IndicesWithin(faces, lo, hi) ==
    \A f \in DOMAIN faces : \A k \in DOMAIN faces[f] :
        lo <= faces[f][k] /\ faces[f][k] <= hi

\* C1: in every reachable state every vertex reference of every stored face is a
\* valid 1-based index into the vertex sequence: 1 <= ref <= len(vertices).
C1_FaceReferencesValid == IndicesWithin(gen.faces, 1, Len(gen.vertices))

\* contact geometry has been added on top of a mesh that already had faces
C1_Witness ==
    /\ last.op = "add_contact_geometry"
    /\ last.before_f > 0
    /\ Len(gen.faces) > last.before_f

\* C2: after generate_probe_mesh on a contour of N >= 3 points the mesh has exactly
\* 2N vertices and N+2 faces, and every face index lies in 1..2N.
C2_ExtrusionCounts ==
    (last.op = "generate_probe_mesh" /\ UsableContour(last.probe)) =>
        LET N == Len(last.probe.probe_planar_contour.points)
        IN  /\ last.ok
            /\ Len(gen.vertices) = 2 * N
            /\ Len(gen.faces) = N + 2
            /\ IndicesWithin(gen.faces, 1, 2 * N)

\* a contour of more than 3 points has been extruded on a generator that held a mesh
C2_Witness ==
    /\ last.op = "generate_probe_mesh"
    /\ UsableContour(last.probe)
    /\ Len(last.probe.probe_planar_contour.points) > 3
    /\ last.before_v > 0

IsPrefix(p, q) == Len(p) <= Len(q) /\ SubSeq(q, 1, Len(p)) = p

\* the indices add_vertex returned during a step from generator g to generator h:
\* the tail of h's log when it extends g's, and else (the log was cleared by a
\* reset in between) all of it
NewlyHanded(g, h) ==
    IF IsPrefix(g.handed, h.handed)
    THEN SubSeq(h.handed, Len(g.handed) + 1, Len(h.handed))
    ELSE h.handed

\* C3 as stated: over any sequence of operations every index add_vertex returns is
\* greater than every index it returned before (increasing, never reused).
C3_NeverReusedAcrossOperations ==
    [][\A i \in Range(NewlyHanded(gen, gen')) : \A j \in Range(gen.handed) : i > j]_vars

\* C3 as amended: add_vertex appends one vertex and returns the count after the
\* append; since the last reset the indices returned are 1, 2, 3, ... in order,
\* each once (reset, also the one generate_probe_mesh starts with, restarts them).
C3_IndicesCountFromLastReset ==
    /\ gen.handed = [k \in 1..Len(gen.vertices) |-> k]
    /\ gen.vertex_count = Len(gen.vertices)
    /\ last.op = "add_vertex" =>
          /\ Len(gen.vertices) = last.before_v + 1
          /\ last.ret = Len(gen.vertices)

\* add_vertex has been called on a generator that already held vertices
C3_Witness == last.op = "add_vertex" /\ last.before_v > 0 /\ last.ret > 1

\* C4: generate_probe_mesh on a generator that holds an earlier mesh leaves the
\* vertices and faces (and returns the value) that the same call leaves on a
\* brand-new generator.
C4_SameAsOnNewGenerator ==
    last.op = "generate_probe_mesh" =>
        LET fresh == generate_probe_mesh(ProbeOBJGenerator, last.probe,
                                         last.probe_thickness, last.contact_height,
                                         last.add_contacts)
        IN  /\ gen.vertices = fresh.gen.vertices
            /\ gen.faces = fresh.gen.faces
            /\ gen.vertex_count = fresh.gen.vertex_count
            /\ last.ok = fresh.ok

\* a mesh has been generated on a generator that held another mesh
C4_Witness ==
    /\ last.op = "generate_probe_mesh"
    /\ last.ok
    /\ last.before_v > 0
    /\ last.before_f > 0
    /\ last.before_v # Len(gen.vertices)

\* the least and the greatest value of coordinate c over the rows
Least(rows, c) == CHOOSE m \in {r[c] : r \in Range(rows)} : \A r \in Range(rows) : m <= r[c]
Greatest(rows, c) == CHOOSE m \in {r[c] : r \in Range(rows)} : \A r \in Range(rows) : m >= r[c]

\* twice the signed area of the polygon q: positive when q runs counter-clockwise
\* seen from +z
Shoelace(q) ==
    LET term(j) == q[j][1] * q[(j % Len(q)) + 1][2] - q[(j % Len(q)) + 1][1] * q[j][2]
        sum[j \in 0..Len(q)] == IF j = 0 THEN 0 ELSE sum[j - 1] + term(j)
    IN  sum[Len(q)]

C6_NoGeometryFails ==
    (/\ last.op \in {"generate_probe_mesh", "generate_probe_obj"}
     /\ NoContourCase(last.probe)
     /\ ContactCount(last.probe) = 0) =>
        /\ ~last.ok
        /\ ~last.raised
        /\ gen.vertices = <<>>
        /\ gen.faces = <<>>

\* generate_probe_mesh has failed for want of geometry on a generator that held a mesh
C6_Witness ==
    /\ last.op = "generate_probe_mesh"
    /\ NoContourCase(last.probe)
    /\ ContactCount(last.probe) = 0
    /\ last.before_f > 0
    /\ ~last.ok

(***************************************************************************)
(* Reading a text back, as a consumer of the file does.                    *)
(***************************************************************************)
StartsWith(line, prefix) ==
    Len(line) >= Len(prefix) /\ SubSeq(line, 1, Len(prefix)) = prefix

\* the line without its first n characters
Drop(line, n) == SubSeq(line, n + 1, Len(line))

\* the fields of a line, split at single spaces
RECURSIVE Fields(_)
Fields(line) ==
    IF \A j \in DOMAIN line : line[j] # " " THEN <<line>>
    ELSE LET cut == CHOOSE j \in DOMAIN line :
                        line[j] = " " /\ \A k \in 1..(j - 1) : line[k] # " "
         IN  <<SubSeq(line, 1, cut - 1)>> \o Fields(Drop(line, cut))

IsDigit(ch) == ch \in {"0", "1", "2", "3", "4", "5", "6", "7", "8", "9"}
DigitValue(ch) == CHOOSE d \in 0..9 : digit(d) = ch

\* the number a field of digits spells; -1 for a field that spells none
ParseNat(field) ==
    LET value[j \in 0..Len(field)] ==
            IF j = 0 THEN 0 ELSE 10 * value[j - 1] + DigitValue(field[j])
    IN  IF Len(field) > 0 /\ \A j \in DOMAIN field : IsDigit(field[j])
        THEN value[Len(field)] ELSE -1

\* the index list of an "f " line
ParseFace(line) ==
    LET fields == Fields(Drop(line, 2))
    IN  [j \in 1..Len(fields) |-> ParseNat(fields[j])]

VertexLines(text) == SelectSeq(text, LAMBDA line : StartsWith(line, <<"v", " ">>))
FaceLines(text) == SelectSeq(text, LAMBDA line : StartsWith(line, <<"f", " ">>))
ParsedFaces(text) == [j \in 1..Len(FaceLines(text)) |-> ParseFace(FaceLines(text)[j])]

\* the names process_all_probes is to hand to process_probe: the library entries
\* that load, in order, then the demo probes that were generated, in order
RECURSIVE LoadedNames(_, _)
LoadedNames(probe_specs, j) ==
    IF j > Len(probe_specs) THEN <<>>
    ELSE (IF probe_specs[j] THEN <<LibraryName(j)>> ELSE <<>>)
         \o LoadedNames(probe_specs, j + 1)

BatchNames ==
    LoadedNames(batch.probe_specs, 1) \o [j \in DOMAIN batch.demo_probes |->
                                             batch.demo_probes[j].name]

\* C7: a failure of one probe of a batch run (its CSV, its OBJ or its metadata) is
\* reported for that probe only: process_probe answers with the conjunction of that
\* probe's own three results, the probes handed to process_probe so far are always
\* the first ones of the batch, once each and in order, whatever failed, at the end
\* every probe of the batch was processed, and the success count is the number of
\* probes whose three outputs all succeeded.
C7_BatchSurvivesFailures ==
    batch.pc # "idle" =>
        /\ batch.cur.success = (batch.cur.csv /\ batch.cur.obj /\ batch.cur.meta)
        /\ batch.successful_probes = batch.all_three
        /\ batch.pc = "library" =>
              batch.processed = LoadedNames(SubSeq(batch.probe_specs, 1, batch.i - 1), 1)
        /\ batch.pc = "demo" =>
              /\ batch.processed = SubSeq(BatchNames, 1, Len(batch.processed))
              /\ Len(batch.processed) =
                    Len(LoadedNames(batch.probe_specs, 1)) + batch.i - 1
        /\ batch.pc = "done" => batch.processed = BatchNames

\* the run is over: two library probes and three demo probes were processed, three
\* of the five failed, and the last one, processed after failures, succeeded
C7_Witness ==
    /\ batch.pc = "done"
    /\ batch.probe_specs = <<TRUE, TRUE>>
    /\ Len(batch.demo_probes) = 3
    /\ batch.successful_probes = 2
    /\ batch.cur.success
    /\ Len(batch.processed) = 5

\* C8: a successful save_obj writes the comment lines (with the display name, the
\* vertex count and the face count), one "v " line per vertex, a blank line, one
\* "f " line per face with its indices space-separated in stored order; reading
\* the text back gives as many vertices, the same faces in the same order, and
\* header counts equal to the numbers of "v " and "f " lines.
C8_SaveObjReadsBack ==
    (last.op \in {"save_obj", "generate_probe_obj"} /\ last.ok) =>
        LET text == last.text
            V == Len(gen.vertices)
            F == Len(gen.faces)
        IN  /\ Len(text) = 6 + V + F
            /\ \A j \in 1..4 : StartsWith(text[j], <<"#">>)
            /\ text[1] = <<"#", " ", "P", "r", "o", "b", "e", ":", " ">> \o last.probe_name
            /\ ParseNat(Drop(text[3], 12)) = V
            /\ ParseNat(Drop(text[4], 9)) = F
            /\ text[5] = <<>>
            /\ \A j \in 1..V :
                  /\ StartsWith(text[5 + j], <<"v", " ">>)
                  /\ Len(Fields(Drop(text[5 + j], 2))) = 3
            /\ text[6 + V] = <<>>
            /\ \A j \in 1..F :
                  /\ StartsWith(text[6 + V + j], <<"f", " ">>)
                  /\ ParseFace(text[6 + V + j]) = gen.faces[j]
            /\ Len(VertexLines(text)) = V
            /\ Len(FaceLines(text)) = F
            /\ ParsedFaces(text) = gen.faces

\* a mesh with a two-digit index has been saved
C8_Witness ==
    /\ last.op = "save_obj"
    /\ last.ok
    /\ Len(gen.vertices) >= 10
    /\ Len(gen.faces) >= 7
    /\ Len(last.text) = 6 + Len(gen.vertices) + Len(gen.faces)

\* C9: whatever add_contacts is, generate_probe_mesh and generate_probe_obj never
\* call add_contact_geometry, and a mesh they produce holds the body alone: 2N
\* vertices and N+2 faces for an N-point contour, 8 and 6 on the fallback path.
C9_ContactsAlwaysDisabled ==
    last.op \in {"generate_probe_mesh", "generate_probe_obj"} =>
        LET N == IF UsableContour(last.probe)
                 THEN Len(last.probe.probe_planar_contour.points) ELSE 4
        IN  /\ "add_contact_geometry" \notin Range(last.calls)
            /\ ((last.op = "generate_probe_mesh" /\ last.ok)
                    \/ "save_obj" \in Range(last.calls)) =>
                  /\ Len(gen.vertices) = 2 * N
                  /\ Len(gen.faces) = N + 2

\* generate_probe_mesh has succeeded with add_contacts = True on a probe with contacts
C9_Witness ==
    /\ last.op = "generate_probe_mesh"
    /\ last.add_contacts
    /\ last.ok
    /\ ContactCount(last.probe) >= 1
    /\ UsableContour(last.probe)

\* the faces added by the last call
NewFaces == SubSeq(gen.faces, last.before_f + 1, Len(gen.faces))

\* q with every index of every face raised by n
Shifted(q, n) == [f \in DOMAIN q |-> [k \in DOMAIN q[f] |-> q[f][k] + n]]

\* the last call added the prism of an n-gon: 2n vertices, two caps of n indices
\* and n quads, over exactly the vertices it added
AddedPrism(n) ==
    /\ Len(gen.vertices) = last.before_v + 2 * n
    /\ Len(gen.faces) = last.before_f + n + 2
    /\ Len(NewFaces[1]) = n
    /\ Len(NewFaces[2]) = n
    /\ \A f \in 3..(n + 2) : Len(NewFaces[f]) = 4
    /\ IndicesWithin(NewFaces, last.before_v + 1, last.before_v + 2 * n)
    /\ \A v \in (last.before_v + 1)..(last.before_v + 2 * n) :
          \E f \in DOMAIN NewFaces : v \in Range(NewFaces[f])
    \* n bottom vertices and n top vertices, one of each per point
    /\ \A k \in 1..n :
          /\ gen.vertices[last.before_v + 2 * k - 1][3][1] < gen.vertices[last.before_v + 2 * k][3][1]
          /\ gen.vertices[last.before_v + 2 * k - 1][3] = gen.vertices[last.before_v + 1][3]
          /\ gen.vertices[last.before_v + 2 * k][3] = gen.vertices[last.before_v + 2][3]

\* C10: a circular contact adds 16 vertices and 10 faces (2 caps of 8, 8 sides)
\* whatever its radius, a rectangular contact 8 vertices and 6 faces whatever its
\* width and height; the new faces refer to the new vertices only, and are the
\* faces the same contact gets on an empty mesh, offset by the vertex count before.
C10_ContactPrisms ==
    /\ (last.op = "_add_circular_contact" /\ ~last.raised) =>
          /\ AddedPrism(8)
          /\ NewFaces = Shifted(_add_circular_contact(ProbeOBJGenerator, last.args[1],
                                    last.args[2], last.args[3]).gen.faces,
                                last.before_v)
    /\ (last.op = "_add_rectangular_contact" /\ ~last.raised) =>
          /\ AddedPrism(4)
          /\ NewFaces = Shifted(_add_rectangular_contact(ProbeOBJGenerator, last.args[1],
                                    last.args[2], last.args[3], last.args[4]).gen.faces,
                                last.before_v)

\* a circle of radius 0 has been added on top of a rectangular contact
C10_Witness ==
    /\ last.op = "_add_circular_contact"
    /\ last.args[2] = 0
    /\ last.before_v = 8
    /\ last.before_f = 6
    /\ Len(gen.vertices) = 24

\* the vertices added by the last call
NewVertices == SubSeq(gen.vertices, last.before_v + 1, Len(gen.vertices))

\* the last call was add_contact_geometry on a probe that has contact positions
ContactsAdded ==
    /\ last.op = "add_contact_geometry"
    /\ ~last.probe.contact_positions.is_none

\* the tag of contact i of the probe, "circle" beyond the end of the tags
TagAt(probe, i) ==
    IF i <= Len(getattr_contact_shapes(probe)) THEN getattr_contact_shapes(probe)[i]
    ELSE "circle"

\* the sum of count(TagAt(probe, i)) over the contacts i..ContactCount(probe)
RECURSIVE SumOverContacts(_, _, _)
SumOverContacts(probe, i, count) ==
    IF i > ContactCount(probe) THEN 0
    ELSE count[TagAt(probe, i) \in {"square", "rect"}]
         + SumOverContacts(probe, i + 1, count)

\* C11: in add_contact_geometry a contact whose tag is neither circle nor square /
\* rect is treated as a circle, so every contact position, whatever its tag, adds
\* one prism: 8 vertices and 6 faces for a square or rect, 16 vertices and 10 faces
\* for every other tag.
C11_UnrecognizedTagIsCircle ==
    (ContactsAdded /\ ~last.raised) =>
        /\ Len(NewVertices) =
              SumOverContacts(last.probe, 1, [rect \in BOOLEAN |-> IF rect THEN 8 ELSE 16])
        /\ Len(NewFaces) =
              SumOverContacts(last.probe, 1, [rect \in BOOLEAN |-> IF rect THEN 6 ELSE 10])

\* a contact as the claims describe it: a shape and its sizes
Circle(radius) == [shape |-> "circle", radius |-> radius, width |-> 0, height |-> 0]
Rect(width, height) == [shape |-> "rect", radius |-> 0, width |-> width, height |-> height]

\* the contact a tag and a parameter dict stand for: a missing radius is 10, a
\* missing width is 20, a missing height is the width
Described(tag, params) ==
    IF tag = "circle"
    THEN Circle(IF "radius" \in DOMAIN params THEN params["radius"] ELSE 10)
    ELSE IF "width" \in DOMAIN params
    THEN Rect(params["width"],
              IF "height" \in DOMAIN params THEN params["height"] ELSE params["width"])
    ELSE Rect(20, IF "height" \in DOMAIN params THEN params["height"] ELSE 20)

\* contact i, the tags and the parameters resolved each on its own: beyond the end
\* of the tags the tag is circle, beyond the end of the parameters they are {radius: 10}
ResolvedEachOnItsOwn(probe, i) ==
    LET shapes == getattr_contact_shapes(probe)
        params == getattr_contact_shape_params(probe)
    IN  Described(TagAt(probe, i),
                  IF i <= Len(params) THEN params[i] ELSE [radius |-> 10])

\* contact i, a circle of radius 10 as soon as i is beyond the end of the tags or
\* of the parameters
ResolvedTogether(probe, i) ==
    LET shapes == getattr_contact_shapes(probe)
        params == getattr_contact_shape_params(probe)
    IN  IF i > Len(shapes) \/ i > Len(params) THEN Circle(10)
        ELSE Described(shapes[i], params[i])

\* the prisms of the contacts i.. of the probe, each as resolved(probe, i) has it,
\* added to g one after the other
RECURSIVE Prisms(_, _, _, _, _)
Prisms(g, probe, resolved, i, contact_height) ==
    IF i > ContactCount(probe) THEN [gen |-> g, raised |-> FALSE]
    ELSE LET c == resolved[i]
             r == IF c.shape = "circle"
                  THEN _add_circular_contact(g, positions_3d(probe)[i], c.radius,
                                             contact_height)
                  ELSE _add_rectangular_contact(g, positions_3d(probe)[i], c.width,
                                                c.height, contact_height)
         IN  IF r.raised THEN r
             ELSE Prisms(r.gen, probe, resolved, i + 1, contact_height)

\* the last call added what r adds to an empty mesh
AddedLike(r) ==
    /\ last.raised = r.raised
    /\ NewVertices = r.gen.vertices
    /\ NewFaces = Shifted(r.gen.faces, last.before_v)

\* every contact of the probe resolves to a tag the code knows
TagsKnown(probe) ==
    \A i \in 1..ContactCount(probe) : TagAt(probe, i) \in {"circle", "square", "rect"}

MeshProduced ==
    \/ last.op = "generate_probe_mesh" /\ last.ok
    \/ last.op = "generate_probe_obj" /\ "save_obj" \in Range(last.calls)

\* C13: an N-point extrusion (N >= 3) inserts the vertices in contour order, bottom
\* then top per point: on a fresh mesh point i (0-based) has bottom index 2i+1 and
\* top index 2i+2; the first face is the bottom cap, the bottom indices in reversed
\* contour order (2N-1, ..., 3, 1), and the second face is the top cap, the top
\* indices in contour order (2, 4, ..., 2N).
C13_ExtrusionOrder ==
    /\ MeshProduced =>
          LET N == Len(gen.vertices) \div 2
          IN  /\ Len(gen.vertices) = 2 * N
              /\ gen.handed = [k \in 1..(2 * N) |-> k]
              /\ gen.faces[1] = [k \in 1..N |-> 2 * (N - k) + 1]
              /\ gen.faces[2] = [k \in 1..N |-> 2 * k]
    /\ (MeshProduced /\ UsableContour(last.probe)) =>
          LET points == last.probe.probe_planar_contour.points
          IN  /\ Len(gen.vertices) = 2 * Len(points)
              /\ \A i \in 0..(Len(points) - 1) :
                    /\ gen.vertices[2 * i + 1] =
                          << Num(points[i + 1][1]), Num(points[i + 1][2]),
                             HalfOf(-last.probe_thickness) >>
                    /\ gen.vertices[2 * i + 2] =
                          << Num(points[i + 1][1]), Num(points[i + 1][2]),
                             HalfOf(last.probe_thickness) >>

\* a contour of at least four points was extruded by a call on a mesh that held
\* something else before
C13_Witness ==
    /\ last.op = "generate_probe_mesh"
    /\ last.ok
    /\ UsableContour(last.probe)
    /\ Len(last.probe.probe_planar_contour.points) >= 4
    /\ last.before_v > 0
    /\ gen.faces[1][1] = 2 * Len(last.probe.probe_planar_contour.points) - 1

\* the last call extruded one contour: an outline, or one contact on its own
OneExtrusion ==
    \/ MeshProduced
    \/ last.op \in {"_add_circular_contact", "_add_rectangular_contact"} /\ ~last.raised

\* where the vertices and the faces of that extrusion start: generate_probe_mesh
\* empties the mesh first, a contact is added to what is there
BaseV == IF MeshProduced THEN 0 ELSE last.before_v
BaseF == IF MeshProduced THEN 0 ELSE last.before_f

\* its number of points, its two caps and its side faces
PointCount == (Len(gen.vertices) - BaseV) \div 2
BottomCap == gen.faces[BaseF + 1]
TopCap == gen.faces[BaseF + 2]
SideFaces == SubSeq(gen.faces, BaseF + 3, Len(gen.faces))

\* C14 as stated: for every extrusion of N >= 3 points the k-th entry of the bottom
\* cap face equals the (N+1-k)-th entry of the top cap face.
C14_BottomCapEqualsReversedTopCap ==
    OneExtrusion =>
        /\ Len(BottomCap) = PointCount
        /\ Len(TopCap) = PointCount
        /\ \A k \in 1..PointCount : BottomCap[k] = TopCap[PointCount + 1 - k]

\* C14, amended: for every extrusion of N >= 3 points the two caps go through the
\* same contour points in opposite order: the k-th entry of the bottom cap face is
\* the bottom vertex, and the (N+1-k)-th entry of the top cap face the top vertex,
\* of one and the same contour point; the top vertex is the one inserted right
\* after the bottom vertex, so the two entries differ by one.
C14_CapsSamePointsOppositeOrder ==
    OneExtrusion =>
        /\ Len(BottomCap) = PointCount
        /\ Len(TopCap) = PointCount
        /\ \A k \in 1..PointCount :
              LET b == gen.vertices[BottomCap[k]]
                  t == gen.vertices[TopCap[PointCount + 1 - k]]
              IN  /\ TopCap[PointCount + 1 - k] = BottomCap[k] + 1
                  /\ b[1] = t[1]
                  /\ b[2] = t[2]
                  /\ b[3][1] < t[3][1]
        /\ \A j, k \in 1..PointCount : j # k => BottomCap[j] # BottomCap[k]

\* a circular contact was extruded on a mesh that held an outline
C14_Witness ==
    /\ last.op = "_add_circular_contact"
    /\ ~last.raised
    /\ last.before_v = 6
    /\ PointCount = 8
    /\ BottomCap[1] = last.before_v + 15

\* C15: after the two caps create_faces_from_contour emits exactly N quadrilateral
\* side faces, one per contour edge i -> (i+1 mod N) for i = 0..N-1 in increasing i,
\* each [bottom(i), bottom(i+1 mod N), top(i+1 mod N), top(i)] in that order; the
\* last one wraps around to point 0.
C15_SideFaces ==
    OneExtrusion =>
        /\ Len(SideFaces) = PointCount
        /\ \A i \in 0..(PointCount - 1) :
              LET next_i == (i + 1) % PointCount
              IN  SideFaces[i + 1] = << BaseV + 2 * i + 1, BaseV + 2 * next_i + 1,
                                        BaseV + 2 * next_i + 2, BaseV + 2 * i + 2 >>

\* a rectangular contact was extruded on a mesh that held something, and its last
\* side face wraps around to its first point
C15_Witness ==
    /\ last.op = "_add_rectangular_contact"
    /\ ~last.raised
    /\ last.before_v > 0
    /\ Len(SideFaces) = 4
    /\ SideFaces[4] = << last.before_v + 7, last.before_v + 1,
                         last.before_v + 2, last.before_v + 8 >>

\* the places of call in the sequence of calls
Places(calls, call) == {j \in DOMAIN calls : calls[j] = call}

\* C16: generate_probe_obj calls save_obj only after generate_probe_mesh has returned
\* success, and at most once; when the mesh generation fails no file is opened or
\* written; and it returns True exactly when the mesh generation and the save both
\* succeeded.
C16_SaveOnlyAfterMesh ==
    last.op = "generate_probe_obj" =>
        LET mesh == generate_probe_mesh(ProbeOBJGenerator, last.probe,
                                        last.probe_thickness, last.contact_height,
                                        last.add_contacts)
            saves == Places(last.calls, "save_obj")
        IN  /\ Places(last.calls, "generate_probe_mesh") = {1}
            /\ Cardinality(saves) <= 1
            /\ saves # {} <=> mesh.ok
            /\ saves \subseteq {Len(last.calls)}
            /\ ~mesh.ok => (~last.opened /\ last.text = <<>> /\ ~last.ok)
            /\ last.ok <=> (mesh.ok /\ last.io = "ok")
            /\ last.ok => (last.opened /\ last.text # <<>>)

\* the mesh generation failed on a contour with a malformed point while the file
\* system would have taken the file
C16_Witness ==
    /\ last.op = "generate_probe_obj"
    /\ ~last.ok
    /\ last.io = "ok"
    /\ last.probe.probe_planar_contour.points = RaggedContour
    /\ Len(gen.vertices) > 0
    /\ ~last.opened
====
